---- MODULE Spec2Model ----
(***************************************************************************)
(* Model of the dependency scanner's core (checkDeps.ts): the three        *)
(* version caches, the resolvers, checkVersion, and the three scan entry   *)
(* points.  A JavaScript string is a sequence of one-character strings, so *)
(* that slicing, lastIndexOf, split and the regular expressions are        *)
(* computed as the code computes them.                                     *)
(***************************************************************************)
EXTENDS Integers, Sequences, FiniteSets, TLC

VARIABLES
  npmDepsCache,       \* Map pkgName -> string | null        (checkDeps.ts)
  denoLandDepsCache,  \* Map pkgName -> string | null
  gitHubDepsCache,    \* Map "owner/repo" -> string | null
  fetches,            \* network calls made so far, per <<cache, key>>
  pc,                 \* position of the running entry point
  scan,               \* the entry point being run and its arguments
  matches,            \* the references the entry point iterates over
  i,                  \* number of resolver calls started in this scan
  summary,            \* the summary array of the running entry point
  inflight,           \* lookups suspended at a network call
  resolved,           \* the resolver's return value, per call of this scan
  scans,              \* entry-point calls completed in this process
  arg,                \* arguments of a directly applied pure function
  ret                 \* its return value

vars == <<npmDepsCache, denoLandDepsCache, gitHubDepsCache, fetches, pc, scan,
          matches, i, summary, inflight, resolved, scans, arg, ret>>

(***************************************************************************)
(* Values.  null and undefined are one-element tuples that no string (a    *)
(* tuple of single characters) can equal.                                  *)
(***************************************************************************)
NULL == <<"null">>
UNDEFINED == <<"undefined">>

\* JavaScript truthiness of a string | null | undefined
Truthy(v) == v # NULL /\ v # UNDEFINED /\ v # <<>>

\* typeof v === 'string'
IsString(v) == v # NULL /\ v # UNDEFINED

\* `${v}` in a template literal
Template(v) == IF v = UNDEFINED THEN <<"u","n","d","e","f","i","n","e","d">> ELSE IF v = NULL THEN <<"n","u","l","l">> ELSE v

\* String.prototype.slice(from) and slice(from, to), 0-based, to exclusive
SliceFrom(s, from) == SubSeq(s, from + 1, Len(s))
Slice(s, from, to) == SubSeq(s, from + 1, to)

\* String.prototype.startsWith
StartsWith(s, p) == Len(s) >= Len(p) /\ SubSeq(s, 1, Len(p)) = p

\* String.prototype.lastIndexOf(c) for a one-character c: 0-based, -1 if absent
LastIndexOf(s, c) ==
  IF \E k \in 1..Len(s) : s[k] = c
  THEN (CHOOSE k \in 1..Len(s) : s[k] = c /\ \A j \in (k+1)..Len(s) : s[j] # c) - 1
  ELSE -1

\* String.prototype.indexOf(c): 0-based, -1 if absent
IndexOf(s, c) ==
  IF \E k \in 1..Len(s) : s[k] = c
  THEN (CHOOSE k \in 1..Len(s) : s[k] = c /\ \A j \in 1..(k-1) : s[j] # c) - 1
  ELSE -1

\* String.prototype.split(c) for a one-character separator
RECURSIVE Split(_, _)
Split(s, c) ==
  LET k == IndexOf(s, c)
  IN IF k < 0 THEN <<s>>
     ELSE <<Slice(s, 0, k)>> \o Split(SliceFrom(s, k + 1), c)

\* arr[k] of a JavaScript array, 0-based: undefined past the end
At(arr, k) == IF k + 1 <= Len(arr) THEN arr[k + 1] ELSE UNDEFINED

(***************************************************************************)
(* decomposePackageNameVersion                                             *)
(***************************************************************************)
\* the same split taken at the first '@' instead of the last
decomposeAtFirst(pkgStr) ==
  LET index == IndexOf(pkgStr, "@")
  IN IF index <= 0 THEN <<pkgStr, <<>>>>
     ELSE <<Slice(pkgStr, 0, index), SliceFrom(pkgStr, index + 1)>>

decomposePackageNameVersion(pkgStr) ==
  LET index == LastIndexOf(pkgStr, "@")
  IN IF index <= 0 THEN <<pkgStr, <<>>>>
     ELSE <<Slice(pkgStr, 0, index), SliceFrom(pkgStr, index + 1)>>

(***************************************************************************)
(* The semver library, as far as checkVersion and resolveGitHub use it:    *)
(* valid, clean and gtr.  A version is <<major, minor, patch>>.            *)
(* Prerelease and build suffixes, "||", hyphen ranges and the "<", ">",    *)
(* "<=" and "=" comparators are not modelled: no input below carries one.  *)
(***************************************************************************)
Digits == <<"0", "1", "2", "3", "4", "5", "6", "7", "8", "9">>

IsDigit(c) == \E k \in 1..Len(Digits) : Digits[k] = c

DigitVal(c) == (CHOOSE k \in 1..Len(Digits) : Digits[k] = c) - 1

\* NUMERICIDENTIFIER: 0|[1-9]\d*
IsNumeric(p) ==
  /\ Len(p) > 0
  /\ \A k \in 1..Len(p) : IsDigit(p[k])
  /\ (Len(p) > 1 => p[1] # "0")

RECURSIVE NumVal(_)
NumVal(p) ==
  IF p = <<>> THEN 0
  ELSE NumVal(SubSeq(p, 1, Len(p) - 1)) * 10 + DigitVal(p[Len(p)])

\* XRANGEIDENTIFIER that is a wildcard: x, X or *
IsX(p) == p \in {<<"x">>, <<"X">>, <<"*">>}

\* the optional leading "v" of FULL and of XRANGEPLAIN
StripV(s) == IF Len(s) > 0 /\ s[1] = "v" THEN SliceFrom(s, 1) ELSE s

\* SemVer.compare on <<major, minor, patch>>
Less(a, b) ==
  \/ a[1] < b[1]
  \/ a[1] = b[1] /\ a[2] < b[2]
  \/ a[1] = b[1] /\ a[2] = b[2] /\ a[3] < b[3]

\* parse(version): FULL is ^v?(num)\.(num)\.(num)$
ParseVersion(s) ==
  LET parts == Split(StripV(s), ".")
  IN IF IsString(s) /\ Len(parts) = 3 /\ \A k \in 1..3 : IsNumeric(parts[k])
     THEN [ok |-> TRUE, v |-> <<NumVal(parts[1]), NumVal(parts[2]), NumVal(parts[3])>>]
     ELSE [ok |-> FALSE, v |-> <<0, 0, 0>>]

\* SemVer.version: the canonical text of a parsed version
RECURSIVE NumStr(_)
NumStr(n) == IF n < 10 THEN <<Digits[n + 1]>> ELSE NumStr(n \div 10) \o <<Digits[(n % 10) + 1]>>

Format(v) == NumStr(v[1]) \o <<".">> \o NumStr(v[2]) \o <<".">> \o NumStr(v[3])

\* semver.valid(version): the canonical version, or null
valid(s) ==
  LET p == ParseVersion(s) IN IF p.ok THEN Format(p.v) ELSE NULL

\* semver.clean(version): version.replace(/^[=v]+/, '') then parsed
RECURSIVE StripEqV(_)
StripEqV(s) ==
  IF Len(s) > 0 /\ s[1] \in {"=", "v"} THEN StripEqV(SliceFrom(s, 1)) ELSE s

clean(s) ==
  LET p == ParseVersion(StripEqV(s)) IN IF p.ok THEN Format(p.v) ELSE NULL

(***************************************************************************)
(* new Range(range) for one comparator: the interval [lo, hi) it accepts   *)
(* (hi inclusive for an exact version, no hi when unbounded above), or     *)
(* ok = FALSE where the constructor throws a TypeError.                    *)
(***************************************************************************)
NoRange == [ok |-> FALSE, lo |-> <<0, 0, 0>>, hi |-> <<0, 0, 0>>, bounded |-> FALSE, incl |-> FALSE]

Interval(lo, hi) == [ok |-> TRUE, lo |-> lo, hi |-> hi, bounded |-> TRUE, incl |-> FALSE]

Exactly(v) == [ok |-> TRUE, lo |-> v, hi |-> v, bounded |-> TRUE, incl |-> TRUE]

AtLeast(lo) == [ok |-> TRUE, lo |-> lo, hi |-> lo, bounded |-> FALSE, incl |-> FALSE]

AnyVersion == AtLeast(<<0, 0, 0>>)

\* the operator a comparator starts with, among those modelled
RangeOp(s) ==
  IF StartsWith(s, <<">","=">>) THEN <<">","=">>
  ELSE IF StartsWith(s, <<"^">>) THEN <<"^">>
  ELSE IF StartsWith(s, <<"~">>) THEN <<"~">>
  ELSE <<>>

\* XRANGEPLAIN: [v=\s]*(xid)(\.(xid)(\.(xid))?)? with xid numeric or a wildcard
IsPartial(parts) ==
  /\ Len(parts) \in 1..3
  /\ \A k \in 1..Len(parts) : IsNumeric(parts[k]) \/ IsX(parts[k])

\* isX(id): !id || id is a wildcard
XAt(parts, k) == k > Len(parts) \/ IsX(parts[k])

\* replaceCaret
Caret(parts) ==
  LET M == NumVal(parts[1])
      m == IF XAt(parts, 2) THEN 0 ELSE NumVal(parts[2])
      p == IF XAt(parts, 3) THEN 0 ELSE NumVal(parts[3])
  IN IF XAt(parts, 1) THEN AnyVersion
     ELSE IF XAt(parts, 2) THEN Interval(<<M, 0, 0>>, <<M + 1, 0, 0>>)
     ELSE IF XAt(parts, 3)
       THEN IF M = 0 THEN Interval(<<M, m, 0>>, <<M, m + 1, 0>>)
            ELSE Interval(<<M, m, 0>>, <<M + 1, 0, 0>>)
     ELSE IF M = 0
       THEN IF m = 0 THEN Interval(<<M, m, p>>, <<M, m, p + 1>>)
            ELSE Interval(<<M, m, p>>, <<M, m + 1, 0>>)
     ELSE Interval(<<M, m, p>>, <<M + 1, 0, 0>>)

\* replaceTilde
Tilde(parts) ==
  LET M == NumVal(parts[1])
      m == IF XAt(parts, 2) THEN 0 ELSE NumVal(parts[2])
      p == IF XAt(parts, 3) THEN 0 ELSE NumVal(parts[3])
  IN IF XAt(parts, 1) THEN AnyVersion
     ELSE IF XAt(parts, 2) THEN Interval(<<M, 0, 0>>, <<M + 1, 0, 0>>)
     ELSE IF XAt(parts, 3) THEN Interval(<<M, m, 0>>, <<M, m + 1, 0>>)
     ELSE Interval(<<M, m, p>>, <<M, m + 1, 0>>)

\* replaceXRange with no operator, then the comparator it leaves
XRange(parts) ==
  LET M == NumVal(parts[1])
      m == IF XAt(parts, 2) THEN 0 ELSE NumVal(parts[2])
      p == IF XAt(parts, 3) THEN 0 ELSE NumVal(parts[3])
  IN IF XAt(parts, 1) THEN AnyVersion
     ELSE IF XAt(parts, 2) THEN Interval(<<M, 0, 0>>, <<M + 1, 0, 0>>)
     ELSE IF XAt(parts, 3) THEN Interval(<<M, m, 0>>, <<M, m + 1, 0>>)
     ELSE Exactly(<<M, m, p>>)

\* replaceXRange with ">="
GreaterEq(parts) ==
  LET M == NumVal(parts[1])
      m == IF XAt(parts, 2) THEN 0 ELSE NumVal(parts[2])
      p == IF XAt(parts, 3) THEN 0 ELSE NumVal(parts[3])
  IN IF XAt(parts, 1) THEN AnyVersion
     ELSE IF XAt(parts, 2) THEN AtLeast(<<M, 0, 0>>)
     ELSE IF XAt(parts, 3) THEN AtLeast(<<M, m, 0>>)
     ELSE AtLeast(<<M, m, p>>)

ParseRange(s) ==
  LET op == RangeOp(s)
      parts == Split(StripV(SliceFrom(s, Len(op))), ".")
  IN IF ~IsString(s) THEN NoRange
     ELSE IF s = <<>> THEN AnyVersion
     ELSE IF ~IsPartial(parts) THEN NoRange
     ELSE IF op = <<"^">> THEN Caret(parts)
     ELSE IF op = <<"~">> THEN Tilde(parts)
     ELSE IF op = <<">","=">> THEN GreaterEq(parts)
     ELSE XRange(parts)

\* Range.test(version)
Satisfies(v, r) ==
  /\ r.ok
  /\ ~Less(v, r.lo)
  /\ (r.bounded => IF r.incl THEN ~Less(r.hi, v) ELSE Less(v, r.hi))

\* outside(version, range, '>') once the range is parsed: the version is not
\* in the range, no comparator is ">" or ">=" alone on top, and the version
\* is not below the lowest comparator
Outside(v, r) ==
  /\ ~Satisfies(v, r)
  /\ r.bounded
  /\ ~Less(v, r.lo)

\* the range check taken as "the range does not accept the version"
gtrNotSatisfied(version, range) ==
  LET r == ParseRange(range)
  IN IF ~r.ok THEN "TypeError"
     ELSE IF ~Satisfies(ParseVersion(version).v, r) THEN "true" ELSE "false"

\* semver.gtr(version, range): "true", "false", or "TypeError" where it throws
gtr(version, range) ==
  LET r == ParseRange(range)
  IN IF ~r.ok THEN "TypeError"
     ELSE IF Outside(ParseVersion(version).v, r) THEN "true" ELSE "false"

(***************************************************************************)
(* checkVersion                                                            *)
(***************************************************************************)
\* checkVersion with the not-found test ahead of the missing-current test
checkVersionNotFoundFirst(pkgName, curVer, latestVer) ==
  IF ~Truthy(latestVer) THEN "not_found"
  ELSE IF ~Truthy(curVer) THEN "invalid_version"
  ELSE IF ~Truthy(valid(latestVer)) THEN "invalid_version"
  ELSE LET greater == gtr(valid(latestVer), curVer)
       IN IF greater = "TypeError" THEN "invalid_version"
          ELSE IF greater = "true" THEN "outdated"
          ELSE IF ~Truthy(valid(curVer)) THEN "not_fixed"
          ELSE "latest"

\* checkVersion without the try/catch around semver.gtr
checkVersionNoCatch(pkgName, curVer, latestVer) ==
  IF ~Truthy(curVer) THEN "invalid_version"
  ELSE IF ~Truthy(latestVer) THEN "not_found"
  ELSE IF ~Truthy(valid(latestVer)) THEN "invalid_version"
  ELSE LET greater == gtr(valid(latestVer), curVer)
       IN IF greater = "TypeError" THEN "TypeError"
          ELSE IF greater = "true" THEN "outdated"
          ELSE IF ~Truthy(valid(curVer)) THEN "not_fixed"
          ELSE "latest"

checkVersion(pkgName, curVer, latestVer) ==
  IF ~Truthy(curVer) THEN "invalid_version"
  ELSE IF ~Truthy(latestVer) THEN "not_found"
  ELSE IF ~Truthy(valid(latestVer)) THEN "invalid_version"
  ELSE LET greater == gtr(valid(latestVer), curVer)
       IN IF greater = "TypeError" THEN "invalid_version"
          ELSE IF greater = "true" THEN "outdated"
          ELSE IF ~Truthy(valid(curVer)) THEN "not_fixed"
          ELSE "latest"

VersionCheckResult == {"latest", "outdated", "not_found", "invalid_version", "not_fixed"}

(***************************************************************************)
(* The version caches (Map) and the platform's URL parser                  *)
(***************************************************************************)
\* new Map()
EmptyMap == <<>>

\* Map.prototype.get: undefined for an absent key
Get(map, key) == IF key \in DOMAIN map THEN map[key] ELSE UNDEFINED

\* Map.prototype.set
Set(map, key, value) ==
  [k \in (DOMAIN map) \cup {key} |-> IF k = key THEN value ELSE map[k]]

\* one more network call counted for <<cache, key>>
Count(map, key) == Set(map, key, IF key \in DOMAIN map THEN map[key] + 1 ELSE 1)

Chars(s) == {s[k] : k \in 1..Len(s)}

Letters == Chars(<<"a","b","c","d","e","f","g","h","i","j","k","l","m","n","o","p","q","r","s","t","u","v","w","x","y","z","A","B","C","D","E","F","G","H","I","J","K","L","M","N","O","P","Q","R","S","T","U","V","W","X","Y","Z">>)

SchemeChars == Letters \cup Chars(<<"0","1","2","3","4","5","6","7","8","9","+","-",".">>)

\* 0-based index of the first character of s from `from` on that is in cs,
\* or the length of s
RECURSIVE FirstOf(_, _, _)
FirstOf(s, cs, from) ==
  IF from >= Len(s) \/ s[from + 1] \in cs THEN from ELSE FirstOf(s, cs, from + 1)

\* 0-based index of the first character of s from `from` on that is not in
\* cs, or the length of s
RECURSIVE FirstNotOf(_, _, _)
FirstNotOf(s, cs, from) ==
  IF from >= Len(s) \/ s[from + 1] \notin cs THEN from ELSE FirstNotOf(s, cs, from + 1)

NoURL == [ok |-> FALSE, hostname |-> <<>>, pathname |-> <<>>]

\* new URL(s) without a base: ok = FALSE where it throws.  An http(s) URL is
\* scheme ":" slashes host [":" port] path ["?"...] ["#"...]; any other scheme
\* gives an opaque path and an empty hostname.  Credentials, upper-case hosts,
\* percent-encoding and dot segments are not modelled: no input below has any.
ParseURL(s) ==
  LET colon == IndexOf(s, ":")
      scheme == Slice(s, 0, colon)
      hostFrom == FirstNotOf(s, {"/"}, colon + 1)
      hostTo == FirstOf(s, {"/", "?", "#"}, hostFrom)
      authority == Slice(s, hostFrom, hostTo)
      pathTo == FirstOf(s, {"?", "#"}, hostTo)
      path == Slice(s, hostTo, pathTo)
  IN IF colon <= 0 \/ scheme[1] \notin Letters \/ ~(Chars(scheme) \subseteq SchemeChars)
       THEN NoURL
     ELSE IF scheme \notin {<<"h","t","t","p">>, <<"h","t","t","p","s">>}
       THEN [ok |-> TRUE, hostname |-> <<>>, pathname |-> SliceFrom(s, colon + 1)]
     ELSE IF authority = <<>> \/ authority[1] = ":"
       THEN NoURL
     ELSE [ok |-> TRUE,
           hostname |-> Split(authority, ":")[1],
           pathname |-> IF path = <<>> THEN <<"/">> ELSE path]

(***************************************************************************)
(* The resolvers.  A call either returns <<current, latest>> at once,      *)
(* suspends at a network call (its lookup is then in flight), or throws.   *)
(***************************************************************************)
Returns(current, latest) ==
  [kind |-> "return", cache |-> "none", key |-> <<>>, current |-> current, latest |-> latest]

Fetches(cache, key, current) ==
  [kind |-> "fetch", cache |-> cache, key |-> key, current |-> current, latest |-> NULL]

Throws ==
  [kind |-> "throw", cache |-> "none", key |-> <<>>, current |-> NULL, latest |-> NULL]

\* the resolver made by createNpmResolver, up to its fetch; `current` is what
\* the caller returns as current version (null when called directly)
npmResolver(pkgName, current) ==
  LET cachedVersion == Get(npmDepsCache, pkgName)
  IN IF IsString(cachedVersion) THEN Returns(current, cachedVersion)
     ELSE Fetches("npm", pkgName, current)

\* resolveDenoLand up to its fetch
resolveDenoLand(url) ==
  LET path == Tail(Split(url.pathname, "/"))
      pkgStr == IF At(path, 0) # <<"x">> THEN At(path, 0) ELSE At(path, 1)
      d == decomposePackageNameVersion(pkgStr)
      cachedVersion == Get(denoLandDepsCache, d[1])
  IN IF pkgStr = UNDEFINED THEN Throws
     ELSE IF IsString(cachedVersion) THEN Returns(d[2], cachedVersion)
     ELSE Fetches("denoLand", d[1], d[2])

\* resolveGitHub up to its request
resolveGitHub(url) ==
  LET path == Tail(Split(url.pathname, "/"))
      pkgName == Template(At(path, 0)) \o <<"/">> \o Template(At(path, 1))
      pkgVersion == At(path, 2)
      cachedVersion == Get(gitHubDepsCache, pkgName)
  IN IF IsString(cachedVersion) THEN Returns(pkgVersion, cachedVersion)
     ELSE Fetches("gitHub", pkgName, pkgVersion)

\* the dispatch with every parsable URL of another host sent to resolveDenoLand
denoURLResolverAnyHost(url_) ==
  IF StartsWith(url_, <<"n","p","m",":">>)
  THEN LET d == decomposePackageNameVersion(SliceFrom(url_, 4))
       IN npmResolver(d[1], d[2])
  ELSE LET url == ParseURL(url_)
       IN IF ~url.ok THEN Returns(NULL, NULL)
          ELSE IF url.hostname = <<"r","a","w",".","g","i","t","h","u","b","u","s","e","r","c","o","n","t","e","n","t",".","c","o","m">> THEN resolveGitHub(url)
          ELSE resolveDenoLand(url)

\* the resolver made by createDenoURLResolver
createDenoURLResolver(url_) ==
  IF StartsWith(url_, <<"n","p","m",":">>)
  THEN LET d == decomposePackageNameVersion(SliceFrom(url_, 4))
       IN npmResolver(d[1], d[2])
  ELSE LET url == ParseURL(url_)
       IN IF ~url.ok THEN Returns(NULL, NULL)
          ELSE IF url.hostname = <<"d","e","n","o",".","l","a","n","d">> THEN resolveDenoLand(url)
          ELSE IF url.hostname = <<"r","a","w",".","g","i","t","h","u","b","u","s","e","r","c","o","n","t","e","n","t",".","c","o","m">> THEN resolveGitHub(url)
          ELSE Returns(NULL, NULL)

\* the resolver main.ts hands to an entry point: npmResolver or denoURLResolver
Resolve(resolver, resource) ==
  IF resolver = "npm" THEN npmResolver(resource, NULL) ELSE createDenoURLResolver(resource)

(***************************************************************************)
(* What the network answers.  res.ok with the version the body carries, or *)
(* a non-success status.                                                   *)
(***************************************************************************)
NotOk == [ok |-> FALSE, body |-> <<>>]

Ok(body) == [ok |-> TRUE, body |-> body]

\* data['dist-tags']['latest'] of the registry, latest_version of apiland,
\* tag_name of the latest release
Responses(cache) ==
  {NotOk} \cup
    (IF cache = "npm" THEN {Ok(<<"1",".","3",".","0">>)}
     ELSE IF cache = "denoLand" THEN {Ok(<<"2",".","0",".","0">>)}
     ELSE {Ok(<<"v","1",".","3",".","0">>), Ok(<<"n","i","g","h","t","l","y">>)})

\* the version a completed lookup stores in its cache and returns as latest
Stored(lookup, res) ==
  IF ~res.ok THEN NULL
  ELSE IF lookup.cache = "gitHub" THEN clean(res.body)
  ELSE res.body

(***************************************************************************)
(* The scan entry points                                                   *)
(***************************************************************************)
\* the back quote character, which a TLA+ string cannot hold
BackQuote == "backquote"

\* [\w/:%#\$&\?\(\)~\.=\+\-@]
UrlChars == Letters \cup Chars(<<"0","1","2","3","4","5","6","7","8","9","_","/",":","%","#","$","&","?","(",")","~",".","=","+","-","@">>)

\* 0-based index just past a match of  q https?:\/\/[UrlChars]+ q  that starts
\* at index `at`, or -1 when there is none
MatchEnd(text, q, at) ==
  LET scheme == IF StartsWith(SliceFrom(text, at + 1), <<"h","t","t","p","s",":","/","/">>) THEN <<"h","t","t","p","s",":","/","/">>
                ELSE <<"h","t","t","p",":","/","/">>
      from == at + 1 + Len(scheme)
      to == FirstNotOf(text, UrlChars, from)
  IN IF /\ at < Len(text)
        /\ text[at + 1] = q
        /\ StartsWith(SliceFrom(text, at + 1), scheme)
        /\ to > from
        /\ to < Len(text)
        /\ text[to + 1] = q
     THEN to + 1
     ELSE -1

\* text.matchAll(urlRegExp) for the quote q, from index `at` on: the matches
\* in the order found, each with its index
RECURSIVE MatchAll(_, _, _)
MatchAll(text, q, at) ==
  IF at >= Len(text) THEN <<>>
  ELSE LET end == MatchEnd(text, q, at)
       IN IF end < 0 THEN MatchAll(text, q, at + 1)
          ELSE <<[index |-> at, text |-> Slice(text, at, end)]>> \o MatchAll(text, q, end)

\* [...matchAll(urlRegExp1), ...matchAll(urlRegExp2), ...matchAll(urlRegExp3)]
UrlMatches(text) ==
  MatchAll(text, "\"", 0) \o MatchAll(text, "'", 0) \o MatchAll(text, BackQuote, 0)

\* a reference to resolve: the name it is reported under, the resource the
\* resolver is called with, and the version declared for it (if any)
Reference(name, resource, declared) ==
  [name |-> name, resource |-> resource, declared |-> declared]

\* Object.keys(packages) with packages[pkgName]
RecordReferences(packages) ==
  [k \in 1..Len(packages) |-> Reference(packages[k][1], packages[k][1], packages[k][2])]

\* Object.keys(packages.imports) with packages.imports[pkgName]
ImportMapReferences(imports) ==
  [k \in 1..Len(imports) |-> Reference(imports[k][1], imports[k][2], UNDEFINED)]

\* match[0].slice(1, -1) of every match
TextReferences(text) ==
  LET ms == UrlMatches(text)
  IN [k \in 1..Len(ms) |->
        LET url == Slice(ms[k].text, 1, Len(ms[k].text) - 1)
        IN Reference(url, url, UNDEFINED)]

\* the item checkDepsRecord pushes, with the resolver's current version kept
RecordItemResolverCurrent(ref, current, latest) ==
  [packageName |-> ref.name,
   currentVersion |-> current,
   latestVersion |-> latest,
   checkResult |-> checkVersion(ref.name, current, latest)]

\* the item checkDepsRecord pushes
RecordItem(ref, current, latest) ==
  [packageName |-> ref.name,
   currentVersion |-> ref.declared,
   latestVersion |-> latest,
   checkResult |-> checkVersion(ref.name, ref.declared, latest)]

\* the item checkDepsImportMap and checkURLStringsEsInText push
ResolvedItem(ref, current, latest) ==
  [packageName |-> ref.name,
   currentVersion |-> current,
   latestVersion |-> latest,
   checkResult |-> checkVersion(ref.name, current, latest)]

SummaryItem(kind, ref, current, latest) ==
  IF kind = "record" THEN RecordItem(ref, current, latest)
  ELSE ResolvedItem(ref, current, latest)

\* the loop body run on without waiting for the resolver's promise
noAwait == "loop"

\* `await resolver(...)`: the entry point is suspended until the lookup is done
awaitResolver == "await"

(***************************************************************************)
(* Inputs.  A mapping is the sequence of its <<key, value>> pairs in        *)
(* Object.keys order, keys distinct.                                       *)
(***************************************************************************)
\* entry-point calls made in one process
MaxScans == 2

Packages ==
  { << <<<<"l","e","f","t","-","p","a","d">>, <<"1",".","0",".","0">>>> >>,
    << <<<<"a">>, <<"^","1",".","0",".","0">>>>, <<<<"l","e","f","t","-","p","a","d">>, <<>>>> >>,
    << <<<<"l","e","f","t","-","p","a","d">>, <<"1",".","3",".","0">>>>, <<<<"a">>, <<"l","a","t","e","s","t">>>> >> }

\* a dependency block whose keys are locators, resolved by the URL resolver
LocatorPackages ==
  { << <<<<"n","p","m",":","a","@","2",".","0",".","0">>, <<"1",".","0",".","0">>>> >> }

ImportMaps ==
  { << <<<<"f","o","o">>, <<"n","p","m",":","f","o","o","@","2",".","0",".","0">>>> >>,
    << <<<<"m">>, <<"h","t","t","p","s",":","/","/","d","e","n","o",".","l","a","n","d","/","x","/","b","@","1",".","0",".","0","/","m">>>>, <<<<"s","t","d">>, <<"h","t","t","p","s",":","/","/","d","e","n","o",".","l","a","n","d","/","s","t","d","/","m">>>> >>,
    << <<<<"g">>, <<"h","t","t","p","s",":","/","/","r","a","w",".","g","i","t","h","u","b","u","s","e","r","c","o","n","t","e","n","t",".","c","o","m","/","o","/","r","/","v","1",".","0",".","0","/","m">>>>,
       <<<<"u">>, <<"h","t","t","p","s",":","/","/","e","x","a","m","p","l","e",".","c","o","m","/","a">>>>,
       <<<<"r","e","l">>, <<".","/","m","o","d",".","t","s">>>>,
       <<<<"x">>, <<"h","t","t","p","s",":","/","/","d","e","n","o",".","l","a","n","d","/","x">>>> >> }

Texts ==
  { <<"\"","h","t","t","p","s",":","/","/","e","x","a","m","p","l","e",".","c","o","m","/","a","/","b","\""," ","'","h","t","t","p","s",":","/","/","e","x","a","m","p","l","e",".","c","o","m","/","c","'">>,
    <<"'","h","t","t","p","s",":","/","/","d","e","n","o",".","l","a","n","d","/","x","/","b","@","2",".","0",".","0","/","m","'"," ","\"","h","t","t","p","s",":","/","/","d","e","n","o",".","l","a","n","d","/","x","/","c","@","1",".","0",".","0","/","m","\"">>,
    <<"i","m","p","o","r","t"," ","\"","h","t","t","p","s",":","/","/","e","x","a","m","p","l","e",".","c","o","m","/","a","\"",";"," ","f","r","o","m"," ","\"","h","t","t","p","s",":","/","/","d","e","n","o",".","l","a","n","d","/","s","t","d","/","m","\"",";"," ","f","r","o","m"," ","\"","h","t","t","p","s",":","/","/","d","e","n","o",".","l","a","n","d","/","s","t","d","/","m","\"">>,
    <<"'","h","t","t","p","s",":","/","/","d","e","n","o",".","l","a","n","d","/","x","/","c","@","1",".","0",".","0","/","m","'"," ","backquote","h","t","t","p",":","/","/","d","e","n","o",".","l","a","n","d","/","x","/","b","/","m","backquote"," ","\"","h","t","t","p","s",":","/","/","d","e","n","o",".","l","a","n","d","/","x","/","b","@","1",".","0",".","0","/","m","'"," ","\"","h","t","t","p","s",":","/","/","\"">> }

ScanInit ==
  /\ npmDepsCache = EmptyMap
  /\ denoLandDepsCache = EmptyMap
  /\ gitHubDepsCache = EmptyMap
  /\ fetches = EmptyMap
  /\ pc = "idle"
  /\ scan = [kind |-> "none", resolver |-> "none", input |-> <<>>]
  /\ matches = <<>>
  /\ i = 0
  /\ summary = <<>>
  /\ inflight = {}
  /\ resolved = <<>>
  /\ scans = 0
  /\ arg = <<>>
  /\ ret = <<>>

cacheVars == <<npmDepsCache, denoLandDepsCache, gitHubDepsCache>>

\* an entry point is called: summary = [] and the references are extracted
Enter(kind, resolver, input, refs) ==
  /\ pc = "idle"
  /\ scans < MaxScans
  /\ scan' = [kind |-> kind, resolver |-> resolver, input |-> input]
  /\ matches' = refs
  /\ i' = 0
  /\ summary' = <<>>
  /\ resolved' = <<>>
  /\ pc' = "loop"
  /\ UNCHANGED <<cacheVars, fetches, inflight, scans, arg, ret>>

checkDepsRecord ==
  \/ \E packages \in Packages : \E resolver \in {"npm", "deno"} :
       Enter("record", resolver, packages, RecordReferences(packages))
  \/ \E packages \in LocatorPackages :
       Enter("record", "deno", packages, RecordReferences(packages))

checkDepsImportMap ==
  \E imports \in ImportMaps :
    Enter("importmap", "deno", imports, ImportMapReferences(imports))

checkURLStringsEsInText ==
  \E text \in Texts :
    Enter("text", "deno", text, TextReferences(text))

\* what the scan records of one resolver call: the lookup it made (cache
\* "none" when it made none), the outcome of its network call ("ok" or
\* "not ok" by HTTP status, "fault" without a response, "none" without a call),
\* what it returned, and whether it threw instead
Resolution(call, latest, status, raised) ==
  [cache |-> call.cache, key |-> call.key, current |-> call.current,
   latest |-> latest, status |-> status, raised |-> raised]

\* the loop body up to the resolver's network call, or through the push when
\* the resolver returns without one
CallResolver ==
  /\ pc = "loop"
  /\ i < Len(matches)
  /\ LET ref == matches[i + 1]
         call == Resolve(scan.resolver, ref.resource)
     IN /\ i' = i + 1
        /\ IF call.kind = "return"
           THEN /\ summary' = Append(summary, SummaryItem(scan.kind, ref, call.current, call.latest))
                /\ resolved' = Append(resolved, Resolution(call, call.latest, "none", FALSE))
                /\ pc' = "loop"
                /\ UNCHANGED <<fetches, inflight>>
           ELSE IF call.kind = "fetch"
           THEN /\ inflight' = inflight \cup {[index |-> i + 1, call |-> call]}
                /\ fetches' = Count(fetches, <<call.cache, call.key>>)
                /\ pc' = awaitResolver
                /\ UNCHANGED <<summary, resolved>>
           ELSE /\ pc' = "thrown"
                /\ resolved' = Append(resolved, Resolution(call, NULL, "none", TRUE))
                /\ UNCHANGED <<summary, fetches, inflight>>
  /\ UNCHANGED <<cacheVars, scan, matches, scans, arg, ret>>

\* a lookup's network call completes: the cache is set, the resolver returns
\* and the loop body pushes the item
FetchReturn ==
  \E lookup \in inflight : \E res \in Responses(lookup.call.cache) :
    /\ lookup.call.cache = "gitHub" => res.ok
    /\ LET latest == Stored(lookup.call, res)
           key == lookup.call.key
       IN /\ npmDepsCache' =
               IF lookup.call.cache = "npm" THEN Set(npmDepsCache, key, latest) ELSE npmDepsCache
          /\ denoLandDepsCache' =
               IF lookup.call.cache = "denoLand" THEN Set(denoLandDepsCache, key, latest)
               ELSE denoLandDepsCache
          /\ gitHubDepsCache' =
               IF lookup.call.cache = "gitHub" THEN Set(gitHubDepsCache, key, latest)
               ELSE gitHubDepsCache
          /\ summary' = Append(summary,
               SummaryItem(scan.kind, matches[lookup.index], lookup.call.current, latest))
          /\ resolved' = Append(resolved,
               Resolution(lookup.call, latest, IF res.ok THEN "ok" ELSE "not ok", FALSE))
    /\ inflight' = inflight \ {lookup}
    /\ pc' = "loop"
    /\ UNCHANGED <<fetches, scan, matches, i, scans, arg, ret>>

\* octokit's request ends in a non-success status: it throws a RequestError,
\* which nothing in the resolver or the entry point catches
RequestThrows ==
  \E lookup \in inflight :
    /\ lookup.call.cache = "gitHub"
    /\ resolved' = Append(resolved, Resolution(lookup.call, NULL, "not ok", TRUE))
    /\ inflight' = inflight \ {lookup}
    /\ pc' = "thrown"
    /\ UNCHANGED <<cacheVars, fetches, scan, matches, i, summary, scans, arg, ret>>

\* the transport fails under a lookup's network call (fetch or the octokit
\* request rejects): nothing catches it
FetchRejects ==
  \E lookup \in inflight :
    /\ resolved' = Append(resolved, Resolution(lookup.call, NULL, "fault", TRUE))
    /\ inflight' = inflight \ {lookup}
    /\ pc' = "thrown"
    /\ UNCHANGED <<cacheVars, fetches, scan, matches, i, summary, scans, arg, ret>>

\* the loop is over: return summary
Return ==
  /\ pc = "loop"
  /\ i = Len(matches)
  /\ pc' = "idle"
  /\ scans' = scans + 1
  /\ UNCHANGED <<cacheVars, fetches, scan, matches, i, summary, inflight, resolved, arg, ret>>

Next ==
  \/ checkDepsRecord
  \/ checkDepsImportMap
  \/ checkURLStringsEsInText
  \/ CallResolver
  \/ FetchReturn
  \/ RequestThrows
  \/ FetchRejects
  \/ Return

Spec == ScanInit /\ [][Next]_vars

(***************************************************************************)
(* Claims about the resolvers and the scan entry points                    *)
(***************************************************************************)
CacheOf(name) ==
  IF name = "npm" THEN npmDepsCache
  ELSE IF name = "denoLand" THEN denoLandDepsCache
  ELSE gitHubDepsCache

\* C1: within one process at most one network call is made for any one
\* cache key of any resolver; a second call with the same key is a cache hit,
\* also when the first lookup ended in a non-success status and stored null.
C1_AtMostOneFetchPerKey ==
  \A k \in DOMAIN fetches : fetches[k] <= 1

\* C2: a lookup of any of the three resolvers that ends in a non-success
\* HTTP status does not raise, returns latestVersion = null, leaves null in
\* its cache under the lookup key, and the entry point reports the dependency
\* with checkResult = not_found.
C2_NonSuccessIsNotFound ==
  \A k \in 1..Len(resolved) :
    resolved[k].status = "not ok" =>
      /\ ~resolved[k].raised
      /\ resolved[k].latest = NULL
      /\ k = Len(resolved) => Get(CacheOf(resolved[k].cache), resolved[k].key) = NULL
      /\ k <= Len(summary)
      /\ summary[k].checkResult = "not_found"

\* the matches of the three quote kinds together, as a set
AllMatches(text) ==
  LET ms == UrlMatches(text) IN {ms[k] : k \in 1..Len(ms)}

\* a set of matches as a sequence, by increasing index in the text
RECURSIVE ByPosition(_)
ByPosition(ms) ==
  IF ms = {} THEN <<>>
  ELSE LET first == CHOOSE m \in ms : \A n \in ms : m.index <= n.index
       IN <<first>> \o ByPosition(ms \ {first})

\* the names the claim C3 expects the summary to carry, in order
ExpectedNames ==
  IF scan.kind = "text"
  THEN LET ms == ByPosition(AllMatches(scan.input))
       IN [k \in 1..Len(ms) |-> Slice(ms[k].text, 1, Len(ms[k].text) - 1)]
  ELSE [k \in 1..Len(scan.input) |-> scan.input[k][1]]

\* C3: every entry point returns exactly one summary item per extracted
\* reference occurrence, duplicates retained, in input order: mapping key
\* order for the two mapping inputs, first-to-last position of the match in
\* the text for the free-text scan, whatever the mix of quotes.
C3_OneItemPerReferenceInOrder ==
  (pc = "idle" /\ scans > 0) =>
    [k \in 1..Len(summary) |-> summary[k].packageName] = ExpectedNames

\* C7: in checkDepsRecord every summary item has packageName = the mapping
\* key, currentVersion = the version declared for that key (the resolver's
\* current is discarded) and latestVersion = the resolver's latest;
\* {"left-pad": "1.0.0"} with latest "1.3.0" gives exactly one item, outdated.
C7_RecordItems ==
  scan.kind = "record" =>
    /\ Len(summary) <= Len(scan.input)
    /\ \A k \in 1..Len(summary) :
         /\ summary[k].packageName = scan.input[k][1]
         /\ summary[k].currentVersion = scan.input[k][2]
         /\ summary[k].latestVersion = resolved[k].latest
    /\ (/\ pc = "idle"
        /\ scan.input = << <<<<"l","e","f","t","-","p","a","d">>, <<"1",".","0",".","0">>>> >>
        /\ resolved[1].latest = <<"1",".","3",".","0">>)
         => (Len(summary) = 1 /\ summary[1].checkResult = "outdated")

\* a record scan returned an item whose declared version replaced the
\* version the resolver returned as current
C7_Witness ==
  /\ pc = "idle"
  /\ scan.kind = "record"
  /\ Len(summary) = 1
  /\ resolved[1].current = <<"2",".","0",".","0">>
  /\ summary[1].currentVersion = <<"1",".","0",".","0">>

\* a string the URL dispatch resolver has no ecosystem for
NotOurs(url_) ==
  /\ ~StartsWith(url_, <<"n","p","m",":">>)
  /\ \/ ~ParseURL(url_).ok
     \/ ParseURL(url_).hostname \notin {<<"d","e","n","o",".","l","a","n","d">>, <<"r","a","w",".","g","i","t","h","u","b","u","s","e","r","c","o","n","t","e","n","t",".","c","o","m">>}

\* C8: the URL dispatch resolver, called with a string that does not start
\* with "npm:" and is not parseable as a URL or has another hostname than the
\* two known hosts, returns (null, null), makes no network call and leaves
\* the three caches unchanged.
C8_NoLookupForOtherReferences ==
  [][(/\ pc = "loop"
      /\ i < Len(matches)
      /\ scan.resolver = "deno"
      /\ NotOurs(matches[i + 1].resource))
       => /\ UNCHANGED <<cacheVars, fetches, inflight>>
          /\ Len(resolved') = Len(resolved) + 1
          /\ resolved'[Len(resolved')].current = NULL
          /\ resolved'[Len(resolved')].latest = NULL
          /\ ~resolved'[Len(resolved')].raised]_vars

\* the dispatch resolver has returned for an unparsable string and for a URL
\* of another host
C8_Witness ==
  /\ scan.resolver = "deno"
  /\ \E j \in 1..Len(resolved) : \E k \in 1..Len(resolved) :
       /\ NotOurs(matches[j].resource) /\ ~ParseURL(matches[j].resource).ok
       /\ NotOurs(matches[k].resource) /\ ParseURL(matches[k].resource).ok
       /\ resolved[j].latest = NULL /\ resolved[k].latest = NULL

\* C9: within one call of an entry point the references are resolved one
\* after the other: the resolver call for reference i+1 starts only after
\* reference i is resolved and its item appended, so at most one lookup is in
\* flight at any moment.
C9_Sequential ==
  /\ Cardinality(inflight) <= 1
  /\ \A lookup \in inflight : lookup.index = i /\ Len(summary) = i - 1
  /\ pc = "loop" => (inflight = {} /\ Len(summary) = i)

\* the lookup of a second reference is in flight, the first item appended
C9_Witness ==
  /\ i >= 2
  /\ Cardinality(inflight) = 1
  /\ Len(summary) = i - 1

(***************************************************************************)
(* Direct application of the two pure functions to every input of a        *)
(* bounded set.                                                            *)
(***************************************************************************)
\* longest generated package string
MaxLen == 4

\* largest generated version component
MaxNum == 2

\* the scanner's state while a pure function is applied on its own
ScannerAtRest ==
  /\ npmDepsCache = EmptyMap
  /\ denoLandDepsCache = EmptyMap
  /\ gitHubDepsCache = EmptyMap
  /\ fetches = EmptyMap
  /\ scan = <<>>
  /\ matches = <<>>
  /\ i = 0
  /\ summary = <<>>
  /\ inflight = {}
  /\ resolved = <<>>
  /\ scans = 0

scannerVars == <<npmDepsCache, denoLandDepsCache, gitHubDepsCache, fetches, scan,
                 matches, i, summary, inflight, resolved, scans>>

PkgChars == {"@", "a", "/", "1"}

PkgStrings ==
  UNION {[1..n -> PkgChars] : n \in 0..MaxLen}
    \cup {<<"@","s","c","o","p","e","/","p","k","g","@","1",".","2",".","3">>, <<"@","s","c","o","p","e","/","p","k","g">>, <<"p","a","c","k","a","g","e","@","v","e","r","s","i","o","n">>, <<"p","a","c","k","a","g","e">>}

DecomposeInit ==
  /\ ScannerAtRest
  /\ pc = "call"
  /\ arg \in PkgStrings
  /\ ret = <<>>

DecomposeReturn ==
  /\ pc = "call"
  /\ ret' = decomposePackageNameVersion(arg)
  /\ pc' = "returned"
  /\ UNCHANGED <<arg, scannerVars>>

SpecDecompose == DecomposeInit /\ [][DecomposeReturn]_vars

Dot(a, b) == a \o <<".">> \o b

NumTexts == {NumStr(n) : n \in 0..MaxNum}

FullTexts == {Dot(Dot(a, b), c) : a \in NumTexts, b \in NumTexts, c \in NumTexts}

PartialTexts ==
  FullTexts
    \cup {Dot(a, b) : a \in NumTexts, b \in NumTexts}
    \cup NumTexts
    \cup {Dot(a, <<"x">>) : a \in NumTexts}
    \cup {<<"*">>, <<"x">>}

RangePrefixes == {<<>>, <<"^">>, <<"~">>, <<">","=">>, <<"v">>}

JunkTexts == {<<"n","o","t","-","a","-","v","e","r","s","i","o","n">>, <<"l","a","t","e","s","t">>, <<"1",".","2",".","3",".","4">>, <<"^">>, <<"0","1",".","2",".","3">>, <<"1",".",".","2">>}

CurVerInputs ==
  {NULL, <<>>}
    \cup {p \o t : p \in RangePrefixes, t \in PartialTexts}
    \cup JunkTexts
    \cup {<<"^","1",".","0",".","0">>, <<"1",".","2",".","3">>}

LatestVerInputs ==
  {NULL, <<>>}
    \cup FullTexts
    \cup {<<"v">> \o t : t \in FullTexts}
    \cup JunkTexts
    \cup {<<"1",".","5",".","0">>, <<"2",".","0",".","0">>, <<"1",".","2",".","3">>, <<"1",".","0",".","0">>, <<"1","0",".","0",".","0">>}

CheckVersionInit ==
  /\ ScannerAtRest
  /\ pc = "call"
  /\ arg \in CurVerInputs \X LatestVerInputs
  /\ ret = <<>>

CheckVersionReturn ==
  /\ pc = "call"
  /\ ret' = checkVersion(<<"p","k","g">>, arg[1], arg[2])
  /\ pc' = "returned"
  /\ UNCHANGED <<arg, scannerVars>>

SpecCheckVersion == CheckVersionInit /\ [][CheckVersionReturn]_vars

(***************************************************************************)
(* Claims about the pure functions                                         *)
(***************************************************************************)
\* value absent: null, undefined or the empty string
Missing(v) == v = NULL \/ v = UNDEFINED \/ v = <<>>

\* every version whose components occur in the inputs
VersionUniverse ==
  LET ns == (0..MaxNum) \cup {3, 5, 10} IN {<<a, b, c>> : a \in ns, b \in ns, c \in ns}

\* latest is strictly greater than every version the range of current accepts
GreaterThanAllAccepted(latest, current) ==
  LET range == ParseRange(current)
      version == ParseVersion(latest).v
  IN \A v \in VersionUniverse : Satisfies(v, range) => Less(v, version)

\* what the claim C4 requires of one call checkVersion(current, latest) = result
C4_Expected(current, latest, result) ==
  /\ result = "outdated" <=> GreaterThanAllAccepted(latest, current)
  /\ result # "outdated" =>
       result = (IF ParseVersion(current).ok THEN "latest" ELSE "not_fixed")

C4_Examples ==
  /\ arg = <<<<"^","1",".","0",".","0">>, <<"1",".","5",".","0">>>> => ret # "outdated"
  /\ arg = <<<<"^","1",".","0",".","0">>, <<"2",".","0",".","0">>>> => ret = "outdated"
  /\ arg = <<<<"1",".","2",".","3">>, <<"1",".","2",".","3">>>> => ret = "latest"

C5_MissingPrecedence ==
  pc = "returned" =>
    /\ Missing(arg[1]) => ret = "invalid_version"
    /\ (~Missing(arg[1]) /\ arg[2] = NULL) => ret = "not_found"
    /\ arg = <<NULL, NULL>> => ret = "invalid_version"

\* the resolver result (null, null) was classified
C5_Witness == pc = "returned" /\ arg = <<NULL, NULL>> /\ ret = "invalid_version"

C6_Total == ret \in VersionCheckResult

C6_BadLatest ==
  (~Missing(arg[2]) /\ ~ParseVersion(arg[2]).ok) => ret = "invalid_version"

\* C6 (as amended): checkVersion never raises and returns one of the five
\* outcomes for every pair of strings or nulls; a present latest that is not
\* a valid semantic version yields invalid_version; a present current that
\* parses neither as a version nor as a range yields invalid_version whenever
\* latest is present.
C6_TotalLatestPresent ==
  pc = "returned" =>
    /\ C6_Total
    /\ C6_BadLatest
    /\ (~Missing(arg[1]) /\ ~ParseRange(arg[1]).ok /\ ~Missing(arg[2]))
         => ret = "invalid_version"

\* C6 (as stated): the same, with a present unparsable current yielding
\* invalid_version against every latest.
C6_TotalAnyLatest ==
  pc = "returned" =>
    /\ C6_Total
    /\ C6_BadLatest
    /\ (~Missing(arg[1]) /\ ~ParseRange(arg[1]).ok) => ret = "invalid_version"

\* the comparison threw on an unparsable current and was caught
C6_Witness ==
  pc = "returned" /\ arg = <<<<"n","o","t","-","a","-","v","e","r","s","i","o","n">>, <<"1",".","0",".","0">>>> /\ ret = "invalid_version"

\* 1-based positions of the '@' characters after the first character
LaterAts(s) == {k \in 2..Len(s) : s[k] = "@"}

SetMax(ns) == CHOOSE n \in ns : \A m \in ns : m <= n

====
